---- MODULE Spec2Model ----
(***************************************************************************)
(* Model of tssc.workflow_result.WorkflowResult: the ordered list of       *)
(* StepResult objects, its upsert (add_step_result), its queries and its   *)
(* rendering.                                                              *)
(*                                                                         *)
(* StepResult objects live in a heap and the workflow list holds           *)
(* references (ids) to them, as the Python list does: add_step_result      *)
(* mutates the artifacts of the object it is given, and the same object    *)
(* may be handed to the store more than once.                              *)
(*                                                                         *)
(* Python values are tagged trees: Scalar(v) is a leaf, Dict(f) is a dict  *)
(* whose items are the function f.  Dict equality in Python ignores        *)
(* insertion order, so a dict is a function.                               *)
(*                                                                         *)
(* Spec is the store in memory with its upsert and its queries.            *)
(* SpecPersist is the snapshot path shared by stage invocations, each with *)
(* a store of its own: load_from_pickle_file, add_step_result and          *)
(* write_to_pickle_file, with the file system in fs.  SpecReport is one    *)
(* invocation with the three writers.  SpecMerge is merge_results alone.   *)
(***************************************************************************)
EXTENDS Integers, Sequences, FiniteSets, TLC

VARIABLES heap, workflow_list, last, fs, invocations

vars == <<heap, workflow_list, last, fs, invocations>>

(* ------------------------------ bounds --------------------------------- *)

\* longest workflow list: a call that would leave a longer one is not made
MaxLen == 2

(* ------------------------------ inputs --------------------------------- *)

None == "None"

Steps == {"build", "deploy"}

Subs == {"x", "y"}

Names == {"url", "tag"}

\* the values a caller gives to an artifact of each name
Values(name) == IF name = "url" THEN {"a.example.com", "b.example.com"} ELSE {"v2"}

\* no object (Python's None where a StepResult is expected)
NullRef == 0

(* --------------------------- Python values ----------------------------- *)

Scalar(v) == [s |-> v]

Dict(f) == [d |-> f]

\* isinstance(v, dict)
IsDict(v) == "d" \in DOMAIN v

EmptyDict == Dict([k \in {} |-> None])

TypeError == [raised |-> "TypeError"]

Keys(dict) == DOMAIN dict.d

(* ----------------------------- StepResult ------------------------------ *)

\* one artifact as StepResult.add_artifact stores it
Artifact(value) ==
    Dict([k \in {"description", "type", "value"} |->
            CASE k = "description" -> Scalar("")
              [] k = "type" -> Scalar("str")
              [] k = "value" -> Scalar(value)])

\* the artifacts dicts a caller can build with add_artifact: each name
\* left out or set to one of its values
ArtifactDicts ==
    UNION {{Dict([n \in ns |-> Artifact(f[n])]) :
                f \in {g \in [ns -> UNION {Values(n) : n \in Names}] :
                          \A n \in ns : g[n] \in Values(n)}} :
             ns \in SUBSET Names}

\* StepResult(step_name, sub_step_name, ...) followed by add_artifact calls
StepResult(step_name, sub_step_name, artifacts) ==
    [step_name |-> step_name,
     sub_step_name |-> sub_step_name,
     sub_step_implementer_name |-> "impl",
     success |-> TRUE,
     message |-> "",
     artifacts |-> artifacts]

\* StepResult.get_artifact_value(name): the 'value' of the artifact, or None
StepResult_get_artifact_value(obj, name) ==
    IF name \in Keys(obj.artifacts)
    THEN obj.artifacts.d[name].d["value"].s
    ELSE None

\* StepResult.get_sub_step_result(): the rendered entry
get_sub_step_result(obj) ==
    Dict([k \in {"sub-step-implementer-name", "sub-step-name", "success",
                 "message", "artifacts"} |->
            CASE k = "sub-step-implementer-name" -> Scalar(obj.sub_step_implementer_name)
              [] k = "sub-step-name" -> Scalar(obj.sub_step_name)
              [] k = "success" -> Scalar(IF obj.success THEN "True" ELSE "False")
              [] k = "message" -> Scalar(obj.message)
              [] k = "artifacts" -> obj.artifacts])

\* StepResult.get_step_result(): {step_name: {sub_step_name: rendered entry}}
StepResult_get_step_result(obj) ==
    Dict([s \in {obj.step_name} |->
            Dict([u \in {obj.sub_step_name} |-> get_sub_step_result(obj)])])

(* ---------------------------- merge_results ---------------------------- *)

RECURSIVE merge_results_dict2_wins(_, _)

\* merge_results in which dict2's value decides on a key of both
merge_results_dict2_wins(dict1, dict2) ==
    IF ~IsDict(dict1) \/ ~IsDict(dict2)
    THEN TypeError
    ELSE LET intersection == Keys(dict2) \cup Keys(dict1)
             output(k) ==
                 IF k \notin Keys(dict1) THEN dict2.d[k]
                 ELSE IF k \notin Keys(dict2) THEN dict1.d[k]
                 ELSE IF IsDict(dict2.d[k])
                      THEN merge_results_dict2_wins(dict1.d[k], dict2.d[k])
                      ELSE dict2.d[k]
         IN  IF \E k \in intersection : output(k) = TypeError
             THEN TypeError
             ELSE Dict([k \in intersection |-> output(k)])

RECURSIVE merge_results(_, _)

\* {**dict2, **dict1} raises TypeError when either argument is no mapping;
\* on a key of both, dict1's value decides: a dict recurses, anything else
\* is kept as it is
merge_results(dict1, dict2) ==
    IF ~IsDict(dict1) \/ ~IsDict(dict2)
    THEN TypeError
    ELSE LET intersection == Keys(dict2) \cup Keys(dict1)
             output(k) ==
                 IF k \notin Keys(dict1) THEN dict2.d[k]
                 ELSE IF k \notin Keys(dict2) THEN dict1.d[k]
                 ELSE IF IsDict(dict1.d[k])
                      THEN merge_results(dict1.d[k], dict2.d[k])
                      ELSE dict1.d[k]
         IN  IF \E k \in intersection : output(k) = TypeError
             THEN TypeError
             ELSE Dict([k \in intersection |-> output(k)])

\* dict.update(other)
DictUpdate(dict, other) ==
    Dict([k \in Keys(dict) \cup Keys(other) |->
            IF k \in Keys(other) THEN other.d[k] ELSE dict.d[k]])

(* ---------------------------- WorkflowResult --------------------------- *)

\* the StepResult objects of a workflow list, in list order
Entries(h, wl) == [i \in 1..Len(wl) |-> h[wl[i]]]

RemoveAt(seq, i) == SubSeq(seq, 1, i - 1) \o SubSeq(seq, i + 1, Len(seq))

\* get_step_result_by_step_name: the first object of that step and sub step
get_step_result_by_step_name(h, wl, step_name, sub_step_name) ==
    LET hits == {i \in 1..Len(wl) : /\ h[wl[i]].step_name = step_name
                                    /\ h[wl[i]].sub_step_name = sub_step_name}
    IN  IF hits = {} THEN NullRef
        ELSE wl[CHOOSE i \in hits : \A j \in hits : i <= j]

RECURSIVE delete_loop(_, _, _, _)

\* the for loop of delete_step_result_by_name: the list iterator is at
\* position i (1-based) and moves on by one after every element it yields,
\* also after a del that shifted the rest of the list to the left
delete_loop(h, wl, step_name, i) ==
    IF i > Len(wl) THEN wl
    ELSE IF h[wl[i]].step_name = step_name
         THEN delete_loop(h, RemoveAt(wl, i), step_name, i + 1)
         ELSE delete_loop(h, wl, step_name, i + 1)

delete_step_result_by_name(h, wl, step_name) == delete_loop(h, wl, step_name, 1)

\* add_step_result with the arguments of merge_results exchanged: the prior
\* entry's artifacts are laid over the new ones
add_step_result_old_wins(h, wl, id) ==
    LET step_name == h[id].step_name
        sub_step_name == h[id].sub_step_name
        step_old == get_step_result_by_step_name(h, wl, step_name, sub_step_name)
    IN  IF step_old # NullRef
        THEN LET merged == merge_results(h[step_old].artifacts, h[id].artifacts)
                 h2 == [h EXCEPT ![id].artifacts = DictUpdate(@, merged)]
                 wl2 == delete_step_result_by_name(h2, wl, step_name)
             IN  [heap |-> h2, workflow_list |-> Append(wl2, id)]
        ELSE [heap |-> h, workflow_list |-> Append(wl, id)]

\* add_step_result(step_result) for the StepResult object id of heap h:
\* the heap and the list after the call
add_step_result(h, wl, id) ==
    LET step_name == h[id].step_name
        sub_step_name == h[id].sub_step_name
        step_old == get_step_result_by_step_name(h, wl, step_name, sub_step_name)
    IN  IF step_old # NullRef
        THEN LET merged == merge_results(h[id].artifacts, h[step_old].artifacts)
                 h2 == [h EXCEPT ![id].artifacts = DictUpdate(@, merged)]
                 wl2 == delete_step_result_by_name(h2, wl, step_name)
             IN  [heap |-> h2, workflow_list |-> Append(wl2, id)]
        ELSE [heap |-> h, workflow_list |-> Append(wl, id)]

\* isinstance(step_result, StepResult)
IsStepResult(value) == "step_name" \in DOMAIN value

\* the else branch with the list emptied before the raise
add_step_result_else_clears(h, wl, value) ==
    [heap |-> [i \in {} |-> None],
     workflow_list |-> << >>,
     raised |-> [type |-> "TSSCException",
                 message |-> "expect StepResult instance type"]]

\* the else branch of add_step_result, for a value that is no StepResult:
\* the heap and the list after the call, and what it raised
add_step_result_else(h, wl, value) ==
    [heap |-> h,
     workflow_list |-> wl,
     raised |-> [type |-> "TSSCException",
                 message |-> "expect StepResult instance type"]]

RECURSIVE scan_step_only(_, _, _, _, _, _)

\* scan_sub_step without the comparison of the sub step
scan_step_only(h, wl, artifact, step_name, sub_step_name, i) ==
    IF i > Len(wl) THEN None
    ELSE IF h[wl[i]].step_name = step_name
         THEN StepResult_get_artifact_value(h[wl[i]], artifact)
         ELSE scan_step_only(h, wl, artifact, step_name, sub_step_name, i + 1)

RECURSIVE scan_sub_step(_, _, _, _, _, _)

\* the loop of get_artifact_value for a step and a sub step: the first
\* entry of that step and sub step decides, whether it has the artifact or not
scan_sub_step(h, wl, artifact, step_name, sub_step_name, i) ==
    IF i > Len(wl) THEN None
    ELSE IF /\ h[wl[i]].step_name = step_name
            /\ h[wl[i]].sub_step_name = sub_step_name
         THEN StepResult_get_artifact_value(h[wl[i]], artifact)
         ELSE scan_sub_step(h, wl, artifact, step_name, sub_step_name, i + 1)

RECURSIVE scan_first_entry(_, _, _, _, _)

\* scan that breaks at the first entry it looks into, artifact or not
scan_first_entry(h, wl, artifact, step_name, i) ==
    IF i > Len(wl) THEN None
    ELSE IF step_name = None \/ h[wl[i]].step_name = step_name
         THEN StepResult_get_artifact_value(h[wl[i]], artifact)
         ELSE scan_first_entry(h, wl, artifact, step_name, i + 1)

RECURSIVE scan_no_break(_, _, _, _, _)

\* scan without the break: the last entry that has the artifact decides
scan_no_break(h, wl, artifact, step_name, i) ==
    IF i > Len(wl) THEN None
    ELSE LET rest == scan_no_break(h, wl, artifact, step_name, i + 1)
         IN  IF rest # None THEN rest
             ELSE IF step_name = None \/ h[wl[i]].step_name = step_name
                  THEN StepResult_get_artifact_value(h[wl[i]], artifact)
                  ELSE None

RECURSIVE scan(_, _, _, _, _)

\* the two "first value" loops of get_artifact_value from position i on:
\* step_name = None scans every entry, otherwise the entries of that step
scan(h, wl, artifact, step_name, i) ==
    IF i > Len(wl) THEN None
    ELSE IF step_name = None \/ h[wl[i]].step_name = step_name
         THEN LET value == StepResult_get_artifact_value(h[wl[i]], artifact)
              IN  IF value # None THEN value
                  ELSE scan(h, wl, artifact, step_name, i + 1)
         ELSE scan(h, wl, artifact, step_name, i + 1)

\* get_artifact_value that looks, without a step name, into the entries of
\* the sub step alone
get_artifact_value_of_sub_step(h, wl, artifact, step_name, sub_step_name) ==
    IF step_name # None
    THEN IF sub_step_name # None
         THEN scan_sub_step(h, wl, artifact, step_name, sub_step_name, 1)
         ELSE scan(h, wl, artifact, step_name, 1)
    ELSE IF sub_step_name # None
         THEN LET hits == {i \in 1..Len(wl) :
                              /\ h[wl[i]].sub_step_name = sub_step_name
                              /\ artifact \in Keys(h[wl[i]].artifacts)}
              IN  IF hits = {} THEN None
                  ELSE StepResult_get_artifact_value(
                           h[wl[CHOOSE i \in hits : \A j \in hits : i <= j]], artifact)
         ELSE scan(h, wl, artifact, None, 1)

\* the sub step is looked at only under "if step_name is not None"
get_artifact_value(h, wl, artifact, step_name, sub_step_name) ==
    IF step_name # None
    THEN IF sub_step_name # None
         THEN scan_sub_step(h, wl, artifact, step_name, sub_step_name, 1)
         ELSE scan(h, wl, artifact, step_name, 1)
    ELSE scan(h, wl, artifact, None, 1)

\* get_step_result without the comparison of the step name: the entries
\* of every step keyed by sub step
get_step_result_any_step(h, wl, step_name) ==
    LET hits(u) == {i \in 1..Len(wl) : h[wl[i]].sub_step_name = u}
        last_hit(u) == CHOOSE i \in hits(u) : \A j \in hits(u) : j <= i
        result == Dict([u \in {u2 \in Subs : hits(u2) # {}} |->
                          get_sub_step_result(h[wl[last_hit(u)]])])
    IN  Dict([k \in {"tssc-results"} |->
                Dict([s \in {step_name} |-> result])])

\* get_step_result(step_name): the entries of the step keyed by sub step, a
\* later entry replacing an earlier one of the same sub step
get_step_result(h, wl, step_name) ==
    LET hits(u) == {i \in 1..Len(wl) : /\ h[wl[i]].step_name = step_name
                                       /\ h[wl[i]].sub_step_name = u}
        last_hit(u) == CHOOSE i \in hits(u) : \A j \in hits(u) : j <= i
        result == Dict([u \in {u2 \in Subs : hits(u2) # {}} |->
                          get_sub_step_result(h[wl[last_hit(u)]])])
    IN  Dict([k \in {"tssc-results"} |->
                Dict([s \in {step_name} |-> result])])

RECURSIVE all_results_loop(_, _, _, _)

\* the for loop of get_all_step_results
all_results_loop(h, wl, i, all_results) ==
    IF i > Len(wl) THEN all_results
    ELSE all_results_loop(h, wl, i + 1,
             merge_results(all_results, StepResult_get_step_result(h[wl[i]])))

get_all_step_results(h, wl) ==
    Dict([k \in {"tssc-results"} |-> all_results_loop(h, wl, 1, EmptyDict)])

(* ----------------------------- file system ----------------------------- *)

PickleFile == "tssc-results/tssc-results.pkl"

YmlFile == "tssc-results/tssc-results.yml"

JsonFile == "tssc-results/tssc-results.json"

Filenames == {PickleFile, YmlFile, JsonFile}

\* os.path.dirname of the three filenames
Directory == "tssc-results"

\* what a path holds: nothing, a file of zero length, bytes that are no
\* complete document, or a document
Missing == [kind |-> "missing"]

ZeroLength == [kind |-> "empty"]

Truncated == [kind |-> "truncated"]

\* the directory of the three files does not exist; mtime counts for the
\* directory the times os.makedirs made it and for a file the times it was
\* opened for writing
NoDirectory ==
    [dir |-> FALSE,
     files |-> [f \in Filenames |-> Missing],
     mtime |-> [f \in Filenames \cup {Directory} |-> 0]]

\* the exception of a call: none, or a type with its message and its cause
NotRaised == [type |-> None]

Raised(type, text, filename, cause) ==
    [type |-> type, message |-> <<text, filename, cause>>, cause |-> cause]

\* the stage invocations (processes) that share the snapshot path
Procs == {1, 2}

\* the last call of an invocation: the operation, the fault the environment
\* met it with, and what it raised
Call(op, fault, raised) == [op |-> op, fault |-> fault, raised |-> raised]

(* ------------------------------- actions ------------------------------- *)

EmptyHeap == [i \in {} |-> None]

\* an invocation that has not loaded the snapshot yet holds no store
NotStarted ==
    [p \in Procs |-> [pc |-> "start",
                      heap |-> EmptyHeap,
                      workflow_list |-> << >>,
                      upserted |-> {},
                      loaded_at |-> 0,
                      call |-> Call("init", "none", NotRaised)]]

Init ==
    /\ heap = EmptyHeap
    /\ workflow_list = << >>
    /\ last = [op |-> "init"]
    /\ fs = NoDirectory
    /\ invocations = NotStarted

Range(seq) == {seq[i] : i \in 1..Len(seq)}

\* References are renumbered after every call in the order in which the
\* list first mentions them, and objects the list no longer mentions are
\* dropped: a caller keeps no StepResult that the store has let go.
FirstAt(wl, id) == CHOOSE i \in 1..Len(wl) : wl[i] = id /\ \A j \in 1..(i - 1) : wl[j] # id

Rank(wl, id) == Cardinality({wl[j] : j \in 1..FirstAt(wl, id)})

Renumber(wl) == [i \in 1..Len(wl) |-> Rank(wl, wl[i])]

Live(h, wl) ==
    [r \in 1..Cardinality(Range(wl)) |->
        h[CHOOSE id \in Range(wl) : Rank(wl, id) = r]]

\* A caller first adds its results and then queries the store.  The queries
\* leave heap and workflow_list as they are, so a call after a query does
\* what the same call does before it; every call is explored from the states
\* no query has been made in.
Adding == last.op \in {"init", "add_step_result"}

\* the heap and list res left by add_step_result, renumbered, with the
\* argument of the call as it was passed
Renumbered(res, given) ==
    [heap |-> Live(res.heap, res.workflow_list),
     workflow_list |-> Renumber(res.workflow_list),
     last |-> [op |-> "add_step_result", given |-> given]]

\* add_step_result(step_result) on object id of heap h: the state after
\* the call
Added(h, id) == Renumbered(add_step_result(h, workflow_list, id), h[id])

\* a caller builds a new StepResult and adds it
AddNew ==
    /\ Adding
    /\ \E step_name \in Steps, sub_step_name \in Subs, artifacts \in ArtifactDicts :
           \E id \in {Cardinality(DOMAIN heap) + 1} :
           \E res \in {Added(heap @@ (id :> StepResult(step_name, sub_step_name,
                                                       artifacts)), id)} :
               /\ Len(res.workflow_list) <= MaxLen
               /\ heap' = res.heap
               /\ workflow_list' = res.workflow_list
               /\ last' = res.last
    /\ UNCHANGED <<fs, invocations>>

\* a caller adds a StepResult that the store already holds
AddAgain ==
    /\ Adding
    /\ \E id \in DOMAIN heap :
           \E res \in {Added(heap, id)} :
               /\ Len(res.workflow_list) <= MaxLen
               /\ heap' = res.heap
               /\ workflow_list' = res.workflow_list
               /\ last' = res.last
    /\ UNCHANGED <<fs, invocations>>

\* values that are no StepResult: None, a str, a dict
NotStepResults == {Scalar(None), Scalar("build"), EmptyDict}

\* a caller passes a value that is no StepResult
AddInvalid ==
    /\ Adding
    /\ \E value \in NotStepResults :
           /\ ~IsStepResult(value)
           /\ \E res \in {add_step_result_else(heap, workflow_list, value)} :
                  /\ heap' = res.heap
                  /\ workflow_list' = res.workflow_list
                  /\ last' = [op |-> "add_step_result raised",
                              given |-> value,
                              raised |-> res.raised]
    /\ UNCHANGED <<fs, invocations>>

QueryArtifact ==
    /\ Adding
    /\ \E artifact \in Names, step_name \in Steps \cup {None},
          sub_step_name \in Subs \cup {None} :
           last' = [op |-> "get_artifact_value",
                    artifact |-> artifact,
                    step_name |-> step_name,
                    sub_step_name |-> sub_step_name,
                    ret |-> get_artifact_value(heap, workflow_list, artifact,
                                               step_name, sub_step_name)]
    /\ UNCHANGED <<heap, workflow_list, fs, invocations>>

QueryStep ==
    /\ Adding
    /\ \E step_name \in Steps :
           last' = [op |-> "get_step_result",
                    step_name |-> step_name,
                    ret |-> get_step_result(heap, workflow_list, step_name)]
    /\ UNCHANGED <<heap, workflow_list, fs, invocations>>

\* get_all_step_results that folds into the entries of the list: every
\* entry is left with the artifacts of the slot it is rendered to
QueryAll_in_place ==
    /\ Adding
    /\ \E ret \in {get_all_step_results(heap, workflow_list)} :
           /\ last' = [op |-> "get_all_step_results", ret |-> ret]
           /\ heap' = [id \in DOMAIN heap |->
                          [heap[id] EXCEPT !.artifacts =
                              ret.d["tssc-results"].d[heap[id].step_name]
                                 .d[heap[id].sub_step_name].d["artifacts"]]]
    /\ UNCHANGED <<workflow_list, fs, invocations>>

\* The queries assign to their locals alone (value, result, all_results,
\* and output in merge_results): the list and its objects stay as they are.
QueryAll ==
    /\ Adding
    /\ last' = [op |-> "get_all_step_results",
                ret |-> get_all_step_results(heap, workflow_list)]
    /\ UNCHANGED <<heap, workflow_list, fs, invocations>>

\* get_step_result_by_step_name returns a reference to an object of the list
QueryByName ==
    /\ Adding
    /\ \E step_name \in Steps, sub_step_name \in Subs :
           last' = [op |-> "get_step_result_by_step_name",
                    step_name |-> step_name,
                    sub_step_name |-> sub_step_name,
                    ret |-> get_step_result_by_step_name(heap, workflow_list,
                                                         step_name, sub_step_name)]
    /\ UNCHANGED <<heap, workflow_list, fs, invocations>>

Next ==
    \/ AddNew
    \/ AddAgain
    \/ AddInvalid
    \/ QueryArtifact
    \/ QueryStep
    \/ QueryAll
    \/ QueryByName

Spec == Init /\ [][Next]_vars

(* ----------------------------- persistence ----------------------------- *)

\* WorkflowResult(): a store with an empty list
WorkflowResult == [heap |-> EmptyHeap, workflow_list |-> << >>]

\* isinstance(obj, WorkflowResult)
IsWorkflowResult(obj) == "workflow_list" \in DOMAIN obj

\* pickle.dump(obj): the class of the object and, for a WorkflowResult, its
\* list with every StepResult written once, where the list first refers to
\* it (memo), and a reference to the memo at each place of the list
pickle_dump(obj) ==
    IF IsWorkflowResult(obj)
    THEN [class |-> "WorkflowResult",
          memo |-> Live(obj.heap, obj.workflow_list),
          refs |-> Renumber(obj.workflow_list)]
    ELSE [class |-> "dict", value |-> obj]

\* pickle.load that takes the memo for the list: one entry for each object
pickle_load_memo(stream) ==
    IF stream.class = "WorkflowResult"
    THEN [heap |-> stream.memo,
          workflow_list |-> [i \in 1..Len(stream.memo) |-> i]]
    ELSE stream.value

\* pickle.load(stream): the object rebuilt from the memo and the references
pickle_load(stream) ==
    IF stream.class = "WorkflowResult"
    THEN [heap |-> stream.memo, workflow_list |-> stream.refs]
    ELSE stream.value

\* The environment may fail a system call that changes the file system:
\* os.makedirs, open(filename, 'w') or the dump into the open file, which
\* leaves a file of zero length or a truncated one.
WriteFaults(files) ==
    {"none", "open", "dump at start", "dump midway"}
        \cup (IF files.dir THEN {} ELSE {"makedirs"})

\* load_from_pickle_file changes the file system with os.makedirs alone
LoadFaults(files) == {"none"} \cup (IF files.dir THEN {} ELSE {"makedirs"})

\* folder_create without the call of os.makedirs
folder_create_no_makedirs(files, fault) == [fs |-> files, raised |-> None]

\* folder_create(filename): the directory is made when it is missing
folder_create(files, fault) ==
    IF ~files.dir
    THEN IF fault = "makedirs"
         THEN [fs |-> files, raised |-> "OSError"]
         ELSE [fs |-> [files EXCEPT !.dir = TRUE, !.mtime[Directory] = @ + 1],
               raised |-> None]
    ELSE [fs |-> files, raised |-> None]

\* the try block run a second time after a failure, the second time
\* without a fault
dump_to_file_retry(files, filename, document, fault) ==
    LET made == folder_create(files, "none")
        first == IF fault \in {"dump at start", "dump midway"}
                 THEN [made.fs EXCEPT !.mtime[filename] = @ + 1]
                 ELSE made.fs
        second == [first EXCEPT !.mtime[filename] = @ + 1]
    IN  [fs |-> [second EXCEPT !.files[filename] = document],
         raised |-> NotRaised]

\* the try block of the three writers: folder_create, open(filename, 'w'),
\* which empties the file, and the dump of the document; any exception is
\* raised again as a RuntimeError
dump_to_file(files, filename, document, fault) ==
    LET made == folder_create(files, fault)
        opened == [made.fs EXCEPT !.mtime[filename] = @ + 1]
        failed(after, cause) ==
            [fs |-> after,
             raised |-> Raised("RuntimeError", "error dumping", filename, cause)]
    IN  IF made.raised # None THEN failed(made.fs, made.raised)
        ELSE IF fault = "open" THEN failed(made.fs, "OSError")
        ELSE IF fault = "dump at start"
             THEN failed([opened EXCEPT !.files[filename] = ZeroLength], "OSError")
        ELSE IF fault = "dump midway"
             THEN failed([opened EXCEPT !.files[filename] = Truncated], "OSError")
        ELSE [fs |-> [opened EXCEPT !.files[filename] = document],
              raised |-> NotRaised]

write_results_to_yml_file(h, wl, files, yml_filename, fault) ==
    dump_to_file(files, yml_filename,
                 [kind |-> "yaml", document |-> get_all_step_results(h, wl)], fault)

write_results_to_json_file(h, wl, files, json_filename, fault) ==
    dump_to_file(files, json_filename,
                 [kind |-> "json", document |-> get_all_step_results(h, wl)], fault)

\* write_to_pickle_file that keeps what the file holds: the entries of the
\* snapshot in the file are written in front of those of the store
write_to_pickle_file_keeping(h, wl, files, pickle_filename, fault) ==
    LET file == files.files[pickle_filename]
        kept == IF file.kind = "pickle" /\ file.stream.class = "WorkflowResult"
                THEN pickle_load(file.stream)
                ELSE WorkflowResult
        shifted == [i \in 1..Len(wl) |-> wl[i] + Len(kept.heap)]
    IN  dump_to_file(files, pickle_filename,
                     [kind |-> "pickle",
                      stream |-> pickle_dump([heap |-> kept.heap \o h,
                                              workflow_list |-> kept.workflow_list
                                                                    \o shifted])],
                     fault)

write_to_pickle_file(h, wl, files, pickle_filename, fault) ==
    dump_to_file(files, pickle_filename,
                 [kind |-> "pickle",
                  stream |-> pickle_dump([heap |-> h, workflow_list |-> wl])],
                 fault)

\* load_from_pickle_file without the test of the size: a file of zero
\* length goes to pickle.load, which raises EOFError
load_from_pickle_file_no_size(files, pickle_filename, fault) ==
    LET made == folder_create(files, fault)
        file == made.fs.files[pickle_filename]
        failed(cause) ==
            [fs |-> made.fs,
             raised |-> Raised("TSSCException", "error loading", pickle_filename, cause)]
    IN  IF made.raised # None THEN failed(made.raised)
        ELSE IF file.kind = "missing"
             THEN [fs |-> made.fs, raised |-> NotRaised, ret |-> WorkflowResult]
        ELSE IF file.kind = "empty" THEN failed("EOFError")
        ELSE IF file.kind # "pickle" THEN failed("UnpicklingError")
        ELSE LET workflow_result == pickle_load(file.stream)
             IN  IF ~IsWorkflowResult(workflow_result)
                 THEN failed("TSSCException: has invalid data")
                 ELSE [fs |-> made.fs, raised |-> NotRaised, ret |-> workflow_result]

\* load_from_pickle_file that starts with an empty store when the file
\* holds no WorkflowResult
load_from_pickle_file_lenient(files, pickle_filename, fault) ==
    LET made == folder_create(files, fault)
        file == made.fs.files[pickle_filename]
        failed(cause) ==
            [fs |-> made.fs,
             raised |-> Raised("TSSCException", "error loading", pickle_filename, cause)]
    IN  IF made.raised # None THEN failed(made.raised)
        ELSE IF file.kind = "missing"
             THEN [fs |-> made.fs, raised |-> NotRaised, ret |-> WorkflowResult]
        ELSE IF file.kind = "empty"
             THEN [fs |-> made.fs, raised |-> NotRaised, ret |-> WorkflowResult]
        ELSE IF file.kind # "pickle" THEN failed("UnpicklingError")
        ELSE LET workflow_result == pickle_load(file.stream)
             IN  IF ~IsWorkflowResult(workflow_result)
                 THEN [fs |-> made.fs, raised |-> NotRaised, ret |-> WorkflowResult]
                 ELSE [fs |-> made.fs, raised |-> NotRaised, ret |-> workflow_result]

\* load_from_pickle_file(pickle_filename): the store of the file, an empty
\* store for a missing file or one of zero length; any exception is raised
\* again as a TSSCException and no store is returned
load_from_pickle_file(files, pickle_filename, fault) ==
    LET made == folder_create(files, fault)
        file == made.fs.files[pickle_filename]
        failed(cause) ==
            [fs |-> made.fs,
             raised |-> Raised("TSSCException", "error loading", pickle_filename, cause)]
    IN  IF made.raised # None THEN failed(made.raised)
        ELSE IF file.kind = "missing"
             THEN [fs |-> made.fs, raised |-> NotRaised, ret |-> WorkflowResult]
        ELSE IF file.kind = "empty"
             THEN [fs |-> made.fs, raised |-> NotRaised, ret |-> WorkflowResult]
        ELSE IF file.kind # "pickle" THEN failed("UnpicklingError")
        ELSE LET workflow_result == pickle_load(file.stream)
             IN  IF ~IsWorkflowResult(workflow_result)
                 THEN failed("TSSCException: has invalid data")
                 ELSE [fs |-> made.fs, raised |-> NotRaised, ret |-> workflow_result]

\* the results that the invocations add
SnapshotResults ==
    {StepResult("build", "x", Dict([n \in {"tag"} |-> Artifact("v2")])),
     StepResult("build", "y", Dict([n \in {"url"} |-> Artifact("a.example.com")])),
     StepResult("deploy", "x", Dict([n \in {"url"} |-> Artifact("b.example.com")]))}

\* The snapshot path before the first invocation: no directory, a directory
\* without the file, a file of zero length, a truncated file, or the pickle
\* of an object that is no WorkflowResult.
InitialFiles ==
    {NoDirectory}
        \cup {[dir |-> TRUE,
               files |-> [f \in Filenames |-> IF f = PickleFile THEN c ELSE Missing],
               mtime |-> [f \in Filenames \cup {Directory} |-> 0]] :
                 c \in {Missing, ZeroLength, Truncated,
                        [kind |-> "pickle", stream |-> pickle_dump(EmptyDict)]}}

InitPersist ==
    /\ heap = EmptyHeap
    /\ workflow_list = << >>
    /\ last = [op |-> "init"]
    /\ fs \in InitialFiles
    /\ invocations = NotStarted

\* an invocation starts: it loads the snapshot
Load(p) ==
    /\ invocations[p].pc = "start"
    /\ \E fault \in LoadFaults(fs) :
           \E res \in {load_from_pickle_file(fs, PickleFile, fault)} :
               /\ fs' = res.fs
               /\ invocations' =
                      [invocations EXCEPT ![p] =
                          IF res.raised = NotRaised
                          THEN [pc |-> "loaded",
                                heap |-> res.ret.heap,
                                workflow_list |-> res.ret.workflow_list,
                                upserted |-> {},
                                loaded_at |-> fs.mtime[PickleFile],
                                call |-> Call("load_from_pickle_file", fault, res.raised)]
                          ELSE [@ EXCEPT !.pc = "failed",
                                         !.call = Call("load_from_pickle_file", fault,
                                                       res.raised)]]
    /\ UNCHANGED <<heap, workflow_list, last>>

\* an invocation starts with WorkflowResult() and does not load: its store
\* is of no snapshot (loaded_at is -1)
Construct(p) ==
    /\ invocations[p].pc = "start"
    /\ invocations' =
           [invocations EXCEPT ![p] =
               [pc |-> "loaded",
                heap |-> WorkflowResult.heap,
                workflow_list |-> WorkflowResult.workflow_list,
                upserted |-> {},
                loaded_at |-> -1,
                call |-> Call("__init__", "none", NotRaised)]]
    /\ UNCHANGED <<heap, workflow_list, last, fs>>

\* an invocation adds a new result to the store it loaded
Upsert(p) ==
    /\ invocations[p].pc = "loaded"
    /\ \E step_result \in SnapshotResults :
           \E id \in {Cardinality(DOMAIN invocations[p].heap) + 1} :
           \E res \in {add_step_result(invocations[p].heap @@ (id :> step_result),
                                       invocations[p].workflow_list, id)} :
               /\ Len(res.workflow_list) <= MaxLen
               /\ invocations' =
                      [invocations EXCEPT ![p] =
                          [@ EXCEPT !.heap = Live(res.heap, res.workflow_list),
                                    !.workflow_list = Renumber(res.workflow_list),
                                    !.upserted = @ \cup {<<step_result.step_name,
                                                            step_result.sub_step_name>>},
                                    !.call = Call("add_step_result", "none", NotRaised)]]
    /\ UNCHANGED <<heap, workflow_list, last, fs>>

\* an invocation adds a result again that its store already holds
UpsertAgain(p) ==
    /\ invocations[p].pc = "loaded"
    /\ \E id \in DOMAIN invocations[p].heap :
           \E res \in {add_step_result(invocations[p].heap,
                                       invocations[p].workflow_list, id)} :
               /\ Len(res.workflow_list) <= MaxLen
               /\ invocations' =
                      [invocations EXCEPT ![p] =
                          [@ EXCEPT !.heap = Live(res.heap, res.workflow_list),
                                    !.workflow_list = Renumber(res.workflow_list),
                                    !.upserted = @ \cup {<<invocations[p].heap[id].step_name,
                                                            invocations[p].heap[id].sub_step_name>>},
                                    !.call = Call("add_step_result", "none", NotRaised)]]
    /\ UNCHANGED <<heap, workflow_list, last, fs>>

\* the invocation after a writer returned or raised
Wrote(p, op, fault, res, pc) ==
    [invocations EXCEPT ![p] =
        [@ EXCEPT !.pc = IF res.raised = NotRaised THEN pc ELSE "failed",
                  !.call = Call(op, fault, res.raised)]]

\* an invocation writes its store back to the snapshot path
WritePickle(p) ==
    /\ invocations[p].pc = "loaded"
    /\ \E fault \in WriteFaults(fs) :
           \E res \in {write_to_pickle_file(invocations[p].heap,
                                            invocations[p].workflow_list,
                                            fs, PickleFile, fault)} :
               /\ fs' = res.fs
               /\ invocations' = Wrote(p, "write_to_pickle_file", fault, res, "written")
    /\ UNCHANGED <<heap, workflow_list, last>>

\* An invocation reports its results in one of the two text formats,
\* after it has written the snapshot or without writing it, and ends.
WriteYml(p) ==
    /\ invocations[p].pc \in {"loaded", "written"}
    /\ \E fault \in WriteFaults(fs) :
           \E res \in {write_results_to_yml_file(invocations[p].heap,
                                                 invocations[p].workflow_list,
                                                 fs, YmlFile, fault)} :
               /\ fs' = res.fs
               /\ invocations' = Wrote(p, "write_results_to_yml_file", fault, res,
                                       "reported")
    /\ UNCHANGED <<heap, workflow_list, last>>

WriteJson(p) ==
    /\ invocations[p].pc \in {"loaded", "written"}
    /\ \E fault \in WriteFaults(fs) :
           \E res \in {write_results_to_json_file(invocations[p].heap,
                                                  invocations[p].workflow_list,
                                                  fs, JsonFile, fault)} :
               /\ fs' = res.fs
               /\ invocations' = Wrote(p, "write_results_to_json_file", fault, res,
                                       "reported")
    /\ UNCHANGED <<heap, workflow_list, last>>

\* the invocations share the snapshot path: each loads, adds and writes back
NextPersist ==
    \E p \in Procs :
        \/ Load(p)
        \/ Upsert(p)
        \/ UpsertAgain(p)
        \/ WritePickle(p)

SpecPersist == InitPersist /\ [][NextPersist]_vars

\* one invocation alone, up to its report
NextReport ==
    \E p \in {1} :
        \/ Load(p)
        \/ Construct(p)
        \/ Upsert(p)
        \/ UpsertAgain(p)
        \/ WritePickle(p)
        \/ WriteYml(p)
        \/ WriteJson(p)

SpecReport == InitPersist /\ [][NextReport]_vars

(* ------------------------- merge_results alone ------------------------- *)

\* the example of the docstring of merge_results
DocDict1 ==
    Dict([k \in {"A", "C"} |->
            Dict([v \in {"value"} |->
                    Scalar(IF k = "A" THEN "A" ELSE "overwriteme")])])

DocDict2 ==
    Dict([k \in {"B", "C"} |-> Dict([v \in {"value"} |-> Scalar(k)])])

DocExpectedAnswer ==
    Dict([k \in {"A", "B", "C"} |-> Dict([v \in {"value"} |-> Scalar(k)])])

MergeKeys == {"A", "C"}

MergeLeaves == {Scalar("C"), Scalar("overwriteme")}

\* the dicts over the keys with values of a set
DictsOver(values) == UNION {{Dict(f) : f \in [ks -> values]} : ks \in SUBSET MergeKeys}

\* The arguments of merge_results: the dicts whose values are leaves or
\* dicts of leaves, and the two dicts of the docstring.
MergeInputs == DictsOver(MergeLeaves \cup DictsOver(MergeLeaves)) \cup {DocDict1, DocDict2}

InitMerge ==
    /\ heap = EmptyHeap
    /\ workflow_list = << >>
    /\ fs = NoDirectory
    /\ invocations = NotStarted
    /\ \E dict1 \in MergeInputs, dict2 \in MergeInputs :
           last = [op |-> "call merge_results", dict1 |-> dict1, dict2 |-> dict2]

Merge ==
    /\ last.op = "call merge_results"
    /\ last' = [op |-> "merge_results",
                dict1 |-> last.dict1,
                dict2 |-> last.dict2,
                ret |-> merge_results(last.dict1, last.dict2)]
    /\ UNCHANGED <<heap, workflow_list, fs, invocations>>

NextMerge == Merge

SpecMerge == InitMerge /\ [][NextMerge]_vars

(* ------------------------------- claims -------------------------------- *)

Identity(obj) == <<obj.step_name, obj.sub_step_name>>

\* the entry at the end of the list: after add_step_result, the one appended
Appended(h, wl) == h[wl[Len(wl)]]

\* positions of a list whose entry has the identity of obj
SameIdentity(h, wl, obj) == {i \in 1..Len(wl) : Identity(h[wl[i]]) = Identity(obj)}

AddedNow == last.op = "add_step_result"

\* a step of add_step_result
AddStep == Adding /\ last'.op = "add_step_result"

\* the 'artifacts' of the rendered entry of a step and sub step
RenderedArtifacts(h, wl, step_name, sub_step_name) ==
    get_all_step_results(h, wl).d["tssc-results"].d[step_name].d[sub_step_name].d["artifacts"]

\* the artifacts of newer laid over those of older: the union of the names,
\* newer's artifact on a name of both
NewerOver(newer, older) ==
    Dict([n \in Keys(newer) \cup Keys(older) |->
            IF n \in Keys(newer) THEN newer.d[n] ELSE older.d[n]])

\* C1: identity uniqueness - the list never holds two entries with the same
\* (step_name, sub_step_name).
C1_IdentityUniqueness ==
    \A i, j \in 1..Len(workflow_list) :
        i # j => Identity(heap[workflow_list[i]]) # Identity(heap[workflow_list[j]])

\* C2: upsert removes only the prior entry - every entry of the store before
\* add_step_result(r) whose identity differs from r's is in the store after
\* the call with the same content.
C2_UpsertRemovesOnlyPrior ==
    [][AddStep =>
        \A i \in 1..Len(workflow_list) :
            Identity(heap[workflow_list[i]]) # Identity(last'.given) =>
                \E j \in 1..Len(workflow_list') :
                    heap'[workflow_list'[j]] = heap[workflow_list[i]]]_vars

\* C3: newer wins - when the store holds a prior entry with r's identity,
\* the entry appended by add_step_result(r) has r's value for every artifact
\* name of both r and that prior entry, and the merge raises nothing.
C3_NewerWins ==
    [][AddStep =>
        \A i \in SameIdentity(heap, workflow_list, last'.given) :
            /\ merge_results(last'.given.artifacts,
                             heap[workflow_list[i]].artifacts) # TypeError
            /\ \A n \in Keys(last'.given.artifacts)
                          \cap Keys(heap[workflow_list[i]].artifacts) :
                   StepResult_get_artifact_value(Appended(heap', workflow_list'), n)
                       = StepResult_get_artifact_value(last'.given, n)]_vars

\* C3 witness: a result was added and the list still shows, in front of the
\* appended entry, an entry of before the call that has the result's
\* identity and another value for one of its artifacts; the appended entry
\* has the result's value.
C3_Witness ==
    /\ AddedNow
    /\ \E i \in 1..(Len(workflow_list) - 1) :
           /\ Identity(heap[workflow_list[i]]) = Identity(last.given)
           /\ \E n \in Keys(last.given.artifacts)
                         \cap Keys(heap[workflow_list[i]].artifacts) :
                  /\ StepResult_get_artifact_value(heap[workflow_list[i]], n)
                         # StepResult_get_artifact_value(last.given, n)
                  /\ StepResult_get_artifact_value(Appended(heap, workflow_list), n)
                         = StepResult_get_artifact_value(last.given, n)

\* C4: union-preserving merge - when the store holds a prior entry p with
\* r's identity, the artifact names of the entry appended by
\* add_step_result(r) are the union of r's and p's names, a name of p alone
\* keeps p's artifact and a name of r alone keeps r's artifact.
C4_UnionPreserving ==
    [][AddStep =>
        \A i \in SameIdentity(heap, workflow_list, last'.given) :
            LET p == heap[workflow_list[i]].artifacts
                r == last'.given.artifacts
                m == Appended(heap', workflow_list').artifacts
            IN  /\ Keys(m) = Keys(r) \cup Keys(p)
                /\ \A n \in Keys(p) \ Keys(r) : m.d[n] = p.d[n]
                /\ \A n \in Keys(r) \ Keys(p) : m.d[n] = r.d[n]]_vars

\* C5: a rerun is visible in the rendered snapshot - after a result was
\* added for an identity that had a prior entry, the artifacts rendered by
\* get_all_step_results for that identity are the new artifacts laid over
\* the prior ones.
C5_RerunRendered ==
    [][AddStep =>
        \A i \in SameIdentity(heap, workflow_list, last'.given) :
            RenderedArtifacts(heap', workflow_list',
                              last'.given.step_name, last'.given.sub_step_name)
                = NewerOver(last'.given.artifacts,
                            heap[workflow_list[i]].artifacts)]_vars

\* C6: merge idempotence - adding r a second time right after adding it
\* leaves the rendered snapshot as it was after the first time.
C6_MergeIdempotence ==
    [][(AddedNow /\ AddStep
          /\ \/ last'.given = last.given
             \/ last'.given = Appended(heap, workflow_list)) =>
        get_all_step_results(heap', workflow_list')
            = get_all_step_results(heap, workflow_list)]_vars

\* C7: rerun ordering - when r's identity is in the store, after
\* add_step_result(r) the merged entry is last and the entries before it are
\* those of before the call without the prior entry of r's identity, in
\* their order; when r's identity is new, the list is the one of before the
\* call with r appended.
C7_RerunOrdering ==
    [][AddStep =>
        LET before == Entries(heap, workflow_list)
            after == Entries(heap', workflow_list')
            same == SameIdentity(heap, workflow_list, last'.given)
            prior == CHOOSE i \in same : \A j \in same : i <= j
        IN  IF same = {}
            THEN after = Append(before, last'.given)
            ELSE /\ Len(after) = Len(before)
                 /\ SubSeq(after, 1, Len(after) - 1) = RemoveAt(before, prior)
                 /\ Identity(after[Len(after)]) = Identity(last'.given)]_vars

AskedNow == last.op = "get_artifact_value"

\* the positions of the list whose entry has the artifact, among all entries
\* (step_name = None) or among those of a step
Holding(artifact, step_name) ==
    {i \in 1..Len(workflow_list) :
        /\ step_name = None \/ heap[workflow_list[i]].step_name = step_name
        /\ artifact \in Keys(heap[workflow_list[i]].artifacts)}

ValueAt(i, artifact) == heap[workflow_list[i]].artifacts.d[artifact].d["value"].s

FirstOf(positions) == CHOOSE i \in positions : \A j \in positions : i <= j

\* C8: scoped query - get_artifact_value(a, s, u) returns None when no entry
\* has identity (s, u); otherwise it returns what an entry of identity
\* (s, u) has for a (None if it has no a), which is the value of the entry of
\* that identity when there is one such entry; it never returns the value of
\* an entry of another step or sub step.
C8_ScopedQuery ==
    (AskedNow /\ last.step_name # None /\ last.sub_step_name # None) =>
        LET scope == {i \in 1..Len(workflow_list) :
                         Identity(heap[workflow_list[i]])
                             = <<last.step_name, last.sub_step_name>>}
        IN  IF scope = {}
            THEN last.ret = None
            ELSE \E i \in scope :
                     last.ret = StepResult_get_artifact_value(
                                    heap[workflow_list[i]], last.artifact)

\* C8 witness: a scoped query returned the value of its entry while an
\* entry of the same step and another sub step holds another value.
C8_Witness ==
    /\ AskedNow /\ last.step_name # None /\ last.sub_step_name # None
    /\ last.ret # None
    /\ \E i \in Holding(last.artifact, last.step_name) :
           /\ heap[workflow_list[i]].sub_step_name # last.sub_step_name
           /\ ValueAt(i, last.artifact) # last.ret

\* C9: stage-only query - get_artifact_value(a, s) returns the value of a
\* from the first entry of step s that has a, and None when no entry of
\* step s has a.
C9_StageOnlyQuery ==
    (AskedNow /\ last.step_name # None /\ last.sub_step_name = None) =>
        LET holding == Holding(last.artifact, last.step_name)
        IN  IF holding = {}
            THEN last.ret = None
            ELSE last.ret = ValueAt(FirstOf(holding), last.artifact)

\* C9 witness: a stage-only query skipped an entry of the step that lacks
\* the artifact and returned the value of a later entry of the step.
C9_Witness ==
    /\ AskedNow /\ last.step_name # None /\ last.sub_step_name = None
    /\ last.ret # None
    /\ \E i \in 1..Len(workflow_list) :
           /\ heap[workflow_list[i]].step_name = last.step_name
           /\ i < FirstOf(Holding(last.artifact, last.step_name))

\* C10: unscoped query - get_artifact_value(a) returns the value of a from
\* the first entry of the list that has a, and None when no entry has a.
C10_UnscopedQuery ==
    (AskedNow /\ last.step_name = None /\ last.sub_step_name = None) =>
        LET holding == Holding(last.artifact, None)
        IN  IF holding = {}
            THEN last.ret = None
            ELSE last.ret = ValueAt(FirstOf(holding), last.artifact)

\* C10 witness: an unscoped query returned the value of the first of two
\* entries that hold different values of the artifact.
C10_Witness ==
    /\ AskedNow /\ last.step_name = None /\ last.sub_step_name = None
    /\ \E i, j \in Holding(last.artifact, None) :
           /\ i < j
           /\ i = FirstOf(Holding(last.artifact, None))
           /\ ValueAt(i, last.artifact) # ValueAt(j, last.artifact)
           /\ last.ret = ValueAt(i, last.artifact)

\* the identities of the entries of a store
Identities(h, wl) == {Identity(h[wl[i]]) : i \in 1..Len(wl)}

\* the store an invocation holds
StoreOf(p) == [heap |-> invocations[p].heap, workflow_list |-> invocations[p].workflow_list]

\* a step in which invocation q loads the snapshot and gets a store
LoadStep(q) == invocations[q].pc = "start" /\ invocations'[q].pc = "loaded"

\* C11: sequential accumulation - when an invocation loads the snapshot
\* after another one has loaded, added its results and written the snapshot
\* back, the store it loads has an entry for every identity the earlier
\* invocation upserted.
C11_SequentialAccumulation ==
    [][\A q \in Procs :
           LoadStep(q) =>
               \A p \in Procs \ {q} :
                   invocations[p].pc = "written" =>
                       invocations[p].upserted
                           \subseteq Identities(invocations'[q].heap,
                                                invocations'[q].workflow_list)]_vars

\* a step in which invocation p calls write_to_pickle_file
WritePickleStep(p) ==
    /\ invocations[p].pc = "loaded"
    /\ invocations'[p].call.op = "write_to_pickle_file"

\* p and q loaded the same snapshot, each before the other wrote, and
\* upserted results of distinct identities
Concurrent(p, q) ==
    /\ p # q
    /\ invocations[p].loaded_at = invocations[q].loaded_at
    /\ invocations[p].upserted # {}
    /\ invocations[q].upserted # {}
    /\ invocations[p].upserted \cap invocations[q].upserted = {}

\* the store that a file's pickle holds
Snapshot(file) == pickle_load(file.stream)

\* C12: lost update - when two invocations loaded the same snapshot before
\* either wrote and upserted results of distinct identities, the write of
\* the second one, after the first has written, raises nothing and leaves a
\* snapshot that is the second one's store and has no entry of an identity
\* the first one upserted.
C12_LostUpdate ==
    [][\A p, q \in Procs :
           (/\ WritePickleStep(p)
            /\ invocations'[p].call.fault = "none"
            /\ invocations[q].pc = "written"
            /\ Concurrent(p, q)) =>
               /\ invocations'[p].call.raised = NotRaised
               /\ invocations'[p].pc = "written"
               /\ fs'.files[PickleFile].kind = "pickle"
               /\ Snapshot(fs'.files[PickleFile]) = StoreOf(p)
               /\ \A identity \in invocations[q].upserted :
                      identity \notin Identities(Snapshot(fs'.files[PickleFile]).heap,
                                                 Snapshot(fs'.files[PickleFile]).workflow_list)]_vars

\* C12 witness: both invocations have written, the snapshot is the store of
\* one of them, and an identity that the other one upserted and holds in its
\* store is not in the snapshot.
C12_Witness ==
    \E p, q \in Procs :
        /\ invocations[p].pc = "written"
        /\ invocations[q].pc = "written"
        /\ Concurrent(p, q)
        /\ fs.files[PickleFile].kind = "pickle"
        /\ Snapshot(fs.files[PickleFile]) = StoreOf(p)
        /\ \E identity \in invocations[q].upserted :
               /\ identity \in Identities(invocations[q].heap,
                                          invocations[q].workflow_list)
               /\ identity \notin Identities(invocations[p].heap,
                                             invocations[p].workflow_list)

\* the entries of a store after add_step_result of a new StepResult
AfterAdd(store, step_result) ==
    LET id == Cardinality(DOMAIN store.heap) + 1
        res == add_step_result(store.heap @@ (id :> step_result),
                               store.workflow_list, id)
    IN  Entries(res.heap, res.workflow_list)

\* the entries of a store after add_step_result of its i-th entry
AfterAddAgain(store, i) ==
    LET res == add_step_result(store.heap, store.workflow_list, store.workflow_list[i])
    IN  Entries(res.heap, res.workflow_list)

\* stores with the same entries in the same order, the same rendered
\* snapshot and the same entries after any further add_step_result
SameStore(restored, store) ==
    /\ Entries(restored.heap, restored.workflow_list)
           = Entries(store.heap, store.workflow_list)
    /\ get_all_step_results(restored.heap, restored.workflow_list)
           = get_all_step_results(store.heap, store.workflow_list)
    /\ \A step_result \in SnapshotResults :
           AfterAdd(restored, step_result) = AfterAdd(store, step_result)
    /\ \A i \in 1..Len(store.workflow_list) :
           AfterAddAgain(restored, i) = AfterAddAgain(store, i)

LoadCallStep(q) ==
    /\ invocations[q].pc = "start"
    /\ invocations'[q].call.op = "load_from_pickle_file"

\* the call returned a store without entries and raised nothing
ReturnedEmpty(invocation) ==
    /\ invocation.call.raised = NotRaised
    /\ invocation.pc = "loaded"
    /\ invocation.workflow_list = << >>
    /\ DOMAIN invocation.heap = {}

C15_CorruptFileRejected ==
    [][\A q \in Procs :
           (/\ LoadCallStep(q)
            /\ \/ fs.files[PickleFile].kind = "truncated"
               \/ /\ fs.files[PickleFile].kind = "pickle"
                  /\ ~IsWorkflowResult(Snapshot(fs.files[PickleFile]))) =>
               /\ invocations'[q].call.raised.type = "TSSCException"
               /\ invocations'[q].pc = "failed"
               /\ invocations'[q].workflow_list = invocations[q].workflow_list
               /\ invocations'[q].heap = invocations[q].heap]_vars

\* C15 witness: the file holds the pickle of a dict and the load of an
\* invocation has raised TSSCException.
C15_Witness ==
    \E q \in Procs :
        /\ invocations[q].call.op = "load_from_pickle_file"
        /\ invocations[q].call.raised.type = "TSSCException"
        /\ invocations[q].pc = "failed"
        /\ fs.files[PickleFile].kind = "pickle"
        /\ ~IsWorkflowResult(Snapshot(fs.files[PickleFile]))

\* a step of add_step_result that raised
AddRaisedStep == Adding /\ last'.op = "add_step_result raised"

\* C16: invalid-input rejection - add_step_result of a value that is no
\* StepResult raises TSSCException and leaves the list and its entries as
\* they were before the call.
C16_InvalidInputRejected ==
    [][AddRaisedStep =>
        /\ ~IsStepResult(last'.given)
        /\ last'.raised.type = "TSSCException"
        /\ workflow_list' = workflow_list
        /\ Entries(heap', workflow_list') = Entries(heap, workflow_list)]_vars

\* C16 witness: a store with entries has rejected a value that is no
\* StepResult.
C16_Witness ==
    /\ last.op = "add_step_result raised"
    /\ last.raised.type = "TSSCException"
    /\ ~IsStepResult(last.given)
    /\ Len(workflow_list) > 0

Writers ==
    {"write_results_to_yml_file", "write_results_to_json_file", "write_to_pickle_file"}

\* the filename a writer was called with
Target(op) ==
    CASE op = "write_results_to_yml_file" -> YmlFile
      [] op = "write_results_to_json_file" -> JsonFile
      [] op = "write_to_pickle_file" -> PickleFile

\* a step in which invocation p calls one of the three writers
WriterStep(p) ==
    /\ invocations[p].pc \in {"loaded", "written"}
    /\ invocations'[p].pc # invocations[p].pc
    /\ invocations'[p].call.op \in Writers

\* C17: write failure handling - when os.makedirs, open or the dump fails in
\* one of the three writers, the call raises RuntimeError with the filename
\* and the cause, has opened the file at most once and not a second time,
\* leaves the file as it was, empty or truncated, and leaves the store of
\* the invocation as it was.
C17_WriteFailure ==
    [][\A p \in Procs :
           (WriterStep(p) /\ invocations'[p].call.fault # "none") =>
               LET raised == invocations'[p].call.raised
                   target == Target(invocations'[p].call.op)
               IN  /\ raised.type = "RuntimeError"
                   /\ raised.message = <<"error dumping", target, "OSError">>
                   /\ raised.cause = "OSError"
                   /\ invocations'[p].pc = "failed"
                   /\ invocations'[p].heap = invocations[p].heap
                   /\ invocations'[p].workflow_list = invocations[p].workflow_list
                   /\ fs'.mtime[target] <= fs.mtime[target] + 1
                   /\ fs'.files[target] \in {fs.files[target], ZeroLength, Truncated}
                   /\ \A f \in Filenames \ {target} :
                          /\ fs'.files[f] = fs.files[f]
                          /\ fs'.mtime[f] = fs.mtime[f]]_vars

\* C17 witness: an invocation that holds entries called
\* write_results_to_yml_file while the directory was missing, os.makedirs
\* failed, and the call raised RuntimeError.
C17_Witness ==
    \E p \in Procs :
        /\ invocations[p].call.op = "write_results_to_yml_file"
        /\ invocations[p].call.fault = "makedirs"
        /\ invocations[p].call.raised.type = "RuntimeError"
        /\ invocations[p].pc = "failed"
        /\ Len(invocations[p].workflow_list) > 0
        /\ ~fs.dir

MergedNow == last.op = "merge_results"

\* C18: docstring contract of merge_results - on a key of dict1 and dict2
\* whose values are different leaves the result has dict2's value, and for
\* the dict1 and dict2 of the docstring the result is its expected_answer.
C18_DocstringContract ==
    MergedNow =>
        /\ \A k \in Keys(last.dict1) \cap Keys(last.dict2) :
               (/\ ~IsDict(last.dict1.d[k])
                /\ ~IsDict(last.dict2.d[k])
                /\ last.dict1.d[k] # last.dict2.d[k]) =>
                   last.ret.d[k] = last.dict2.d[k]
        /\ (last.dict1 = DocDict1 /\ last.dict2 = DocDict2) =>
               last.ret = DocExpectedAnswer

RECURSIVE SameShape(_, _)

\* on every key of both, and below it, the two values are both dicts or
\* both leaves
SameShape(newer, older) ==
    \A k \in Keys(newer) \cap Keys(older) :
        /\ IsDict(newer.d[k]) = IsDict(older.d[k])
        /\ IsDict(newer.d[k]) => SameShape(newer.d[k], older.d[k])

RECURSIVE FourCase(_, _, _)

\* output follows the four-case rule for newer and older
FourCase(newer, older, output) ==
    /\ IsDict(output)
    /\ Keys(output) = Keys(newer) \cup Keys(older)
    /\ \A k \in Keys(older) \ Keys(newer) : output.d[k] = older.d[k]
    /\ \A k \in Keys(newer) \ Keys(older) : output.d[k] = newer.d[k]
    /\ \A k \in Keys(newer) \cap Keys(older) :
           IF IsDict(newer.d[k])
           THEN FourCase(newer.d[k], older.d[k], output.d[k])
           ELSE output.d[k] = newer.d[k]

OfStep(step_name) ==
    {i \in 1..Len(workflow_list) : heap[workflow_list[i]].step_name = step_name}

\* C19: entries of a step - get_step_result(s) returns a dict with the one
\* key 'tssc-results', under it the one key s, and under s one rendered
\* entry for each sub_step_name of the entries of step s: the rendering of
\* an entry of step s with that sub_step_name. No key comes from an entry
\* of another step.
C19_EntriesFor ==
    last.op = "get_step_result" =>
        /\ Keys(last.ret) = {"tssc-results"}
        /\ Keys(last.ret.d["tssc-results"]) = {last.step_name}
        /\ LET result == last.ret.d["tssc-results"].d[last.step_name]
           IN  /\ Keys(result) = {heap[workflow_list[i]].sub_step_name :
                                     i \in OfStep(last.step_name)}
               /\ \A u \in Keys(result) :
                      \E i \in OfStep(last.step_name) :
                          /\ heap[workflow_list[i]].sub_step_name = u
                          /\ result.d[u] = get_sub_step_result(heap[workflow_list[i]])

\* C19 witness: get_step_result(s) returned the entry of step s for a sub
\* step while the list holds, behind that entry, an entry of another step
\* with the same sub step and other artifacts.
C19_Witness ==
    /\ last.op = "get_step_result"
    /\ \E i \in OfStep(last.step_name) :
       \E j \in 1..Len(workflow_list) :
           /\ i < j
           /\ heap[workflow_list[j]].step_name # last.step_name
           /\ heap[workflow_list[j]].sub_step_name = heap[workflow_list[i]].sub_step_name
           /\ heap[workflow_list[j]].artifacts # heap[workflow_list[i]].artifacts
           /\ last.ret.d["tssc-results"].d[last.step_name]
                  .d[heap[workflow_list[i]].sub_step_name]
                  = get_sub_step_result(heap[workflow_list[i]])

\* C21: deep merge on mixed shapes - for a key of dict1 (newer) and dict2
\* (older) of which exactly one value is a dict, merge_results raises
\* nothing and the result has newer's value for that key.
C21_TotalOnMixedShapes ==
    MergedNow =>
        \A k \in Keys(last.dict1) \cap Keys(last.dict2) :
            IsDict(last.dict1.d[k]) # IsDict(last.dict2.d[k]) =>
                /\ last.ret # TypeError
                /\ last.ret.d[k] = last.dict1.d[k]

\* the positions of the list whose entry has an identity
At(identity) ==
    {i \in 1..Len(workflow_list) : Identity(heap[workflow_list[i]]) = identity}

LastOf(positions) == CHOOSE i \in positions : \A j \in positions : j <= i

\* C22: the rendered snapshot covers the store - get_all_step_results()
\* returns, under the one key 'tssc-results', a dict of the step names of
\* the store, under each step name a dict of the sub step names of the
\* entries of that step, and in the slot of an identity the rendering of the
\* entry of that identity; when several entries have the identity, the slot
\* has for every artifact of the last of them that entry's artifact.
C22_RenderedSnapshot ==
    last.op = "get_all_step_results" =>
        /\ Keys(last.ret) = {"tssc-results"}
        /\ LET all_results == last.ret.d["tssc-results"]
           IN  /\ IsDict(all_results)
               /\ Keys(all_results) =
                      {heap[workflow_list[i]].step_name : i \in 1..Len(workflow_list)}
               /\ \A s \in Keys(all_results) :
                      /\ Keys(all_results.d[s]) =
                             {heap[workflow_list[i]].sub_step_name : i \in OfStep(s)}
                      /\ \A u \in Keys(all_results.d[s]) :
                             LET at == At(<<s, u>>)
                                 latest == heap[workflow_list[LastOf(at)]]
                                 slot == all_results.d[s].d[u]
                             IN  IF Cardinality(at) = 1
                                 THEN slot = get_sub_step_result(latest)
                                 ELSE \A n \in Keys(latest.artifacts) :
                                          slot.d["artifacts"].d[n] = latest.artifacts.d[n]

\* a step of get_artifact_value
AskStep == Adding /\ last'.op = "get_artifact_value"

\* C23: read your writes - get_artifact_value(n, step_name, sub_step_name)
\* right after add_step_result(r), with the step and sub step of r and the
\* name n of an artifact that r had when it was passed, returns the value
\* that r had for n.
C23_ReadYourWrites ==
    [][(/\ AddedNow
        /\ AskStep
        /\ last'.step_name = last.given.step_name
        /\ last'.sub_step_name = last.given.sub_step_name
        /\ last'.artifact \in Keys(last.given.artifacts)) =>
           last'.ret = StepResult_get_artifact_value(last.given, last'.artifact)]_vars

\* C24: the view of a step agrees with the full snapshot - for a step s
\* that has an entry, what get_step_result(s) returns under 'tssc-results'
\* and s is what get_all_step_results() of the same store has under
\* 'tssc-results' and s.
C24_StepViewAgrees ==
    (last.op = "get_step_result" /\ OfStep(last.step_name) # {}) =>
        last.ret.d["tssc-results"].d[last.step_name]
            = get_all_step_results(heap, workflow_list)
                  .d["tssc-results"].d[last.step_name]

Queries ==
    {"get_artifact_value", "get_step_result", "get_all_step_results",
     "get_step_result_by_step_name"}

\* a step of one of the four queries
QueryCallStep == Adding /\ last'.op \in Queries

\* C25: the queries are read-only - get_artifact_value, get_step_result,
\* get_all_step_results and get_step_result_by_step_name leave the list, the
\* objects it refers to and the artifacts of every entry as they were.
C25_QueriesReadOnly ==
    [][QueryCallStep =>
        /\ workflow_list' = workflow_list
        /\ Entries(heap', workflow_list') = Entries(heap, workflow_list)
        /\ \A i \in 1..Len(workflow_list) :
               heap'[workflow_list'[i]].artifacts = heap[workflow_list[i]].artifacts]_vars

\* C25 witness: get_all_step_results has merged two entries of one step, of
\* which only the second has an artifact, and the first entry still has
\* none.
C25_Witness ==
    /\ last.op = "get_all_step_results"
    /\ Len(workflow_list) = 2
    /\ heap[workflow_list[1]].step_name = heap[workflow_list[2]].step_name
    /\ Keys(heap[workflow_list[1]].artifacts) = {}
    /\ Keys(heap[workflow_list[2]].artifacts) # {}
    /\ Keys(last.ret.d["tssc-results"].d[heap[workflow_list[2]].step_name]
                .d[heap[workflow_list[2]].sub_step_name].d["artifacts"]) # {}

\* C26: a query with a sub step and no step is an unscoped query -
\* get_artifact_value(a, step_name=None, sub_step_name=u) returns the value
\* of a from the first entry of the list that has a, whatever the step and
\* sub step of that entry, and None when no entry has a.
C26_SubStepOnlyQuery ==
    (AskedNow /\ last.step_name = None /\ last.sub_step_name # None) =>
        LET holding == Holding(last.artifact, None)
        IN  IF holding = {}
            THEN last.ret = None
            ELSE last.ret = ValueAt(FirstOf(holding), last.artifact)

\* C26 witness: a query with sub step u and no step returned the value of
\* the first entry, which is of another sub step, while a later entry of sub
\* step u holds another value of the artifact.
C26_Witness ==
    /\ AskedNow /\ last.step_name = None /\ last.sub_step_name # None
    /\ \E i, j \in Holding(last.artifact, None) :
           /\ i < j
           /\ i = FirstOf(Holding(last.artifact, None))
           /\ heap[workflow_list[i]].sub_step_name # last.sub_step_name
           /\ heap[workflow_list[j]].sub_step_name = last.sub_step_name
           /\ ValueAt(i, last.artifact) # ValueAt(j, last.artifact)
           /\ last.ret = ValueAt(i, last.artifact)

\* the call of invocation p made the directory and no file, and returned a
\* store without entries
MadeDirectoryAlone(p) ==
    /\ fs'.dir
    /\ fs'.mtime[Directory] = fs.mtime[Directory] + 1
    /\ fs'.files = fs.files
    /\ \A f \in Filenames : fs'.files[f] = Missing /\ fs'.mtime[f] = fs.mtime[f]
    /\ ReturnedEmpty(invocations'[p])

MakedirsFailed(p, type, text, filename) ==
    /\ invocations'[p].call.raised = Raised(type, text, filename, "OSError")
    /\ invocations'[p].pc = "failed"
    /\ invocations'[p].heap = invocations[p].heap
    /\ invocations'[p].workflow_list = invocations[p].workflow_list
    /\ fs' = fs

C27_WitnessWriter ==
    \E p \in Procs :
        /\ invocations[p].loaded_at = -1
        /\ invocations[p].call.op = "write_results_to_json_file"
        /\ invocations[p].call.raised = NotRaised
        /\ fs.dir
        /\ fs.mtime[Directory] = 1
        /\ fs.mtime[JsonFile] = 1
        /\ fs.files[JsonFile].kind = "json"
        /\ fs.files[PickleFile] = Missing
        /\ fs.files[YmlFile] = Missing

====
